---- MODULE Spec2Model ----
(***************************************************************************)
(* Model of the EventBus of logger/logger.go: a registry of handlers per   *)
(* topic guarded by one sync.RWMutex, fire-and-forget Publish, and         *)
(* PublishWithReply racing one handler invocation against a timer.         *)
(***************************************************************************)
EXTENDS Integers, Sequences, FiniteSets, TLC

\* ------------------------------------------------------------------ bounds
\* Calls the client goroutines make in one behaviour.
MaxOps == 3

\* ------------------------------------------------------------ input values
Clients == {"c1", "c2"}
Topics == {"a", "b"}
None == "none"
\* The untyped nil interface value.
NIL == "nil"

\* Function values a client can pass.  hello and hi are two closures of the
\* same function literal: same type, same entry point, different captured
\* prefix.  pair returns two values, note returns none.
FuncValues == {"hello", "hi", "pair", "note"}
\* Values that are not functions: an int, and the nil interface.
OtherValues == {"int7", NIL}
FnInputs == FuncValues \cup OtherValues
\* What a client passes to Unsubscribe: hi has the type and entry point of
\* hello too, note those of no other function, and nil has no type.
UnsubscribeInputs == {"hi", "note", NIL}

\* Functions whose body calls the bus they are subscribed to, one for each
\* method: each takes a string, makes its call, and returns the string.
BusCallers == {"subscriber", "unsubscriber", "asker", "publisher", "requester"}

\* The call that the body of a function of BusCallers makes.  The publisher
\* and the requester address another topic than the one they serve, with
\* arguments of their choice.
BusCall(f) ==
  CASE f = "subscriber" ->
         [name |-> "Subscribe", topic |-> "a", fn |-> "note"]
    [] f = "unsubscriber" ->
         [name |-> "Unsubscribe", topic |-> "a", fn |-> f]
    [] f = "asker" ->
         [name |-> "HasCallback", topic |-> "a", fn |-> None]
    [] f = "publisher" ->
         [name |-> "Publish", topic |-> "b", fn |-> None]
    [] OTHER ->
         [name |-> "PublishWithReply", topic |-> "b", fn |-> None]

\* Argument lists a publisher passes: one nil argument (every function here
\* takes one parameter), or none at all.
ArgLists == {<<NIL>>, <<>>}

\* ------------------------------------------------------- reflect on values
\* reflect.TypeOf(v): the nil interface has no type.
TypeOf(v) ==
  CASE v \in {"hello", "hi"} \cup BusCallers -> "func(string) string"
    [] v = "pair" -> "func(string) (string, int)"
    [] v = "note" -> "func(string)"
    [] v = "int7" -> "int"
    [] v \in {"w", ""} -> "string"
    [] OTHER -> None

\* reflect.Type.Kind(); calling it on the nil Type faults.
KindOf(v) ==
  CASE TypeOf(v) = None -> "fault"
    [] v \in FuncValues \cup BusCallers -> "func"
    [] OTHER -> TypeOf(v)

\* reflect.Value.Pointer() of a function value: its entry point.
PointerOf(v) ==
  CASE v \in {"hello", "hi"} -> 1
    [] v = "pair" -> 2
    [] v = "note" -> 3
    [] v = "subscriber" -> 4
    [] v = "unsubscriber" -> 5
    [] v = "asker" -> 6
    [] v = "publisher" -> 7
    [] v = "requester" -> 8
    [] OTHER -> 0

\* funcType.In(i) for i in 1..NumIn: every function here takes one string.
ParamTypes(f) == <<"string">>

\* The zero value of a type (reflect.New(t).Elem()).
ZeroOf(t) == IF t = "string" THEN "" ELSE "0"

\* setUpPublish: argument i goes to parameter i; a nil argument becomes the
\* zero value of parameter i, and funcType.In(i) faults past the last one.
SetUpFaults(f, args) ==
  \E i \in 1..Len(args) : args[i] = NIL /\ i > Len(ParamTypes(f))

setUpPublish(f, args) ==
  [i \in 1..Len(args) |->
     IF args[i] = NIL THEN ZeroOf(ParamTypes(f)[i]) ELSE args[i]]

\* reflect.Value.Call faults on a wrong argument count or a wrong type.
CallFaults(f, passed) ==
  \/ Len(passed) # Len(ParamTypes(f))
  \/ \E i \in 1..Len(passed) :
       TypeOf(passed[i]) # ParamTypes(f)[i]

\* An invocation faults in setUpPublish or in Call.
InvokeFaults(f, args) ==
  SetUpFaults(f, args) \/ CallFaults(f, setUpPublish(f, args))

\* String concatenation prefix + " " + a, on the strings of the model.
Greeting(prefix, a) ==
  CASE prefix = "hello" /\ a = "w" -> "hello w"
    [] prefix = "hello" /\ a = "" -> "hello "
    [] prefix = "hi" /\ a = "w" -> "hi w"
    [] OTHER -> "hi "

\* The list of return values of the function on the passed arguments.
CallResult(f, passed) ==
  CASE f \in {"hello", "hi"} -> <<Greeting(f, passed[1])>>
    [] f = "pair" -> <<Greeting("hi", passed[1]), "int1">>
    [] f \in BusCallers -> <<passed[1]>>
    [] OTHER -> <<>>

\* -------------------------------------------------------------------- state
VARIABLES
  handlers,   \* bus.handlers: topic -> sequence of handlers (by callBack)
  wOwner,     \* the goroutine inside bus.lock.Lock()/Unlock(), or None
  readers,    \* number of read locks held on bus.lock
  pc,         \* per client: where it is in its current call
  op,         \* per client: the call it is in, with the call's locals
  ret,        \* the last return, as long as no later call has begun
  tasks,      \* the goroutines the bus started, in start order
  crashed,    \* an unrecovered panic has ended the program
  nops        \* calls made so far

vars == <<handlers, wOwner, readers, pc, op, ret, tasks, crashed, nops>>

NoOp == [id |-> 0, name |-> None, topic |-> None, fn |-> None, args |-> <<>>,
         copy |-> <<>>, i |-> 0, task |-> 0, timer |-> FALSE]
\* A call's results: val and err of PublishWithReply (n: the count its error
\* message carries), err of Subscribe and Unsubscribe, has of HasCallback.
NoRet == [val |-> None, err |-> None, n |-> 0, has |-> FALSE]
Result(val, err, n) == [val |-> val, err |-> err, n |-> n, has |-> FALSE]
Returned(name, topic, r) == [name |-> name, topic |-> topic, r |-> r]
NoReturn == Returned(None, None, NoRet)

\* New(): an empty map and an unlocked RWMutex.
Init ==
  /\ handlers = [t \in {} |-> <<>>]
  /\ wOwner = None
  /\ readers = 0
  /\ pc = [c \in Clients |-> "idle"]
  /\ op = [c \in Clients |-> NoOp]
  /\ ret = NoReturn
  /\ tasks = <<>>
  /\ crashed = FALSE
  /\ nops = 0

\* bus.handlers[topic]: the nil slice for a missing key.
Lookup(h, topic) == IF topic \in DOMAIN h THEN h[topic] ELSE <<>>

\* bus.handlers[topic] = seq, creating the key when missing.
Store(h, topic, seq) ==
  [t \in DOMAIN h \cup {topic} |-> IF t = topic THEN seq ELSE h[t]]

\* ------------------------------------------------------------- bus.lock
\* sync.RWMutex: Lock() first takes the writers' mutex and announces itself,
\* which blocks every later RLock(), then waits for the readers to leave.
CanLock == wOwner = None
CanRLock == wOwner = None
\* A Lock() that does not wait for the readers.
WriteHeld_NoWait(c) == wOwner = c
WriteHeld(c) == wOwner = c /\ readers = 0

\* The goroutines that call the bus: the clients, and the goroutine of task
\* k when the function it runs calls the bus.
TaskNames == <<"t1", "t2", "t3", "t4", "t5", "t6">>
ThreadOf(k) == TaskNames[k]
TaskOf(t) == CHOOSE k \in DOMAIN TaskNames : TaskNames[k] = t
Threads == Clients \cup {TaskNames[k] : k \in DOMAIN TaskNames}

Running(c) == ~crashed /\ pc[c] \notin {"idle", "returned"}

\* A client can make a call when it is in none; the goroutine of a task makes
\* the call of its function once, after the function has been entered.
CanCall(c) ==
  /\ ~crashed /\ pc[c] = "idle"
  /\ IF c \in Clients THEN nops < MaxOps
     ELSE /\ TaskOf(c) \in DOMAIN tasks
          /\ tasks[TaskOf(c)].st = "invoked"
          /\ tasks[TaskOf(c)].handler \in BusCallers

\* The calls of the clients are numbered from 1; the call made by task k has
\* the number -k.
CallId(c) == IF c \in Clients THEN nops + 1 ELSE 0 - TaskOf(c)
Counted(c) == IF c \in Clients THEN nops + 1 ELSE nops
\* Where a goroutine is after its call has returned.
After(c) == IF c \in Clients THEN "idle" ELSE "returned"

\* A client makes a call: op holds the call's arguments and locals while it
\* runs.  ret holds what the last call to return returned, until a next call
\* is made.
Call(name, topic, fn, args) ==
  [NoOp EXCEPT !.name = name, !.topic = topic, !.fn = fn, !.args = args]

Begin(c, call) ==
  /\ CanCall(c)
  /\ nops' = Counted(c)
  /\ op' = [op EXCEPT ![c] = [call EXCEPT !.id = CallId(c)]]
  /\ ret' = NoReturn

\* A call that starts with bus.lock.Lock(): it goes on once it has the
\* writers' mutex and has announced itself; the readers are waited for next.
BeginLock(c, name, topic, fn) ==
  /\ CanLock
  /\ wOwner' = c
  /\ Begin(c, Call(name, topic, fn, <<>>))
  /\ pc' = [pc EXCEPT ![c] = "locked"]
  /\ UNCHANGED <<handlers, readers, tasks, crashed>>

\* A call returns (its deferred Unlock has run).
Return(c, r) ==
  /\ ret' = Returned(op[c].name, op[c].topic, r)
  /\ op' = [op EXCEPT ![c] = NoOp]
  /\ pc' = [pc EXCEPT ![c] = After(c)]

\* A call that returns in the step that begins it.
BeginReturn(c, name, topic, r) ==
  /\ CanCall(c)
  /\ nops' = Counted(c)
  /\ ret' = Returned(name, topic, r)
  /\ pc' = [pc EXCEPT ![c] = After(c)]
  /\ UNCHANGED op

\* A call faults in the caller's goroutine: the deferred Unlock runs and the
\* panic reaches the caller, which recovers it or lets it end the program.
Panic(c) ==
  /\ Return(c, Result(None, "panic", 0))
  /\ crashed' \in BOOLEAN

\* ------------------------------------------------------------- Subscribe
SubscribeCall(c, topic, fn) == BeginLock(c, "Subscribe", topic, fn)

\* The test of doSubscribe: reflect.TypeOf(fn).Kind() == reflect.Func.
doSubscribeOutcome(fn) ==
  CASE KindOf(fn) = "fault" -> "panic"
    [] KindOf(fn) # "func" -> "NotInvocable"
    [] OTHER -> None

\* A doSubscribe that registers a function once per topic.
doSubscribe_NoDuplicates(h, topic, fn) ==
  IF \E i \in 1..Len(Lookup(h, topic)) : Lookup(h, topic)[i] = fn THEN h
  ELSE Store(h, topic, Append(Lookup(h, topic), fn))

\* bus.handlers[topic] = append(bus.handlers[topic], handler)
doSubscribe(h, topic, fn) == Store(h, topic, Append(Lookup(h, topic), fn))

Subscribe(c) ==
  /\ Running(c) /\ pc[c] = "locked" /\ op[c].name = "Subscribe"
  /\ WriteHeld(c)
  /\ wOwner' = None
  /\ LET out == doSubscribeOutcome(op[c].fn) IN
       IF out = "panic"
         THEN Panic(c) /\ UNCHANGED handlers
         ELSE /\ Return(c, Result(None, out, 0))
              /\ handlers' = IF out = None
                               THEN doSubscribe(handlers, op[c].topic, op[c].fn)
                               ELSE handlers
              /\ UNCHANGED crashed
  /\ UNCHANGED <<readers, tasks, nops>>

\* ----------------------------------------------------------- HasCallback
HasCallbackCall(c, topic) == BeginLock(c, "HasCallback", topic, None)

\* A HasCallback that tests the key only.
HasCallbackResult_KeyOnly(h, topic) == topic \in DOMAIN h

HasCallbackResult(h, topic) ==
  IF topic \in DOMAIN h THEN Len(h[topic]) > 0 ELSE FALSE

HasCallback(c) ==
  /\ Running(c) /\ pc[c] = "locked" /\ op[c].name = "HasCallback"
  /\ WriteHeld(c)
  /\ wOwner' = None
  /\ Return(c, [NoRet EXCEPT !.has = HasCallbackResult(handlers, op[c].topic)])
  /\ UNCHANGED <<handlers, readers, tasks, crashed, nops>>

\* ----------------------------------------------------------- Unsubscribe
UnsubscribeCall(c, topic, fn) == BeginLock(c, "Unsubscribe", topic, fn)

\* handler.callBack.Type() == callback.Type() &&
\* handler.callBack.Pointer() == callback.Pointer()
Matches(handler, callback) ==
  TypeOf(handler) = TypeOf(callback) /\ PointerOf(handler) = PointerOf(callback)

\* A findHandlerIdx whose loop does not stop at the first match.
findHandlerIdx_Last(h, topic, callback) ==
  LET seq == Lookup(h, topic)
      hits == {i \in 1..Len(seq) : Matches(seq[i], callback)}
  IN IF hits = {} THEN -1
     ELSE (CHOOSE i \in hits : \A j \in hits : i >= j) - 1

\* findHandlerIdx: the 0-based index of the first match, or -1.
findHandlerIdx(h, topic, callback) ==
  LET seq == Lookup(h, topic)
      hits == {i \in 1..Len(seq) : Matches(seq[i], callback)}
  IN IF hits = {} THEN -1
     ELSE (CHOOSE i \in hits : \A j \in hits : i <= j) - 1

\* callback.Type() on reflect.ValueOf(nil) faults in the first comparison.
findHandlerIdxFaults(h, topic, callback) ==
  Lookup(h, topic) # <<>> /\ callback = NIL

\* A removeHandler that deletes the key with its last handler.
removeHandler_DeleteEmpty(h, topic, idx) ==
  IF topic \notin DOMAIN h THEN h
  ELSE LET seq == h[topic]
           l == Len(seq)
       IN IF ~(0 <= idx /\ idx < l) THEN h
          ELSE IF l = 1 THEN [t \in DOMAIN h \ {topic} |-> h[t]]
          ELSE [h EXCEPT ![topic] =
                  [i \in 1..(l - 1) |-> IF i <= idx THEN seq[i] ELSE seq[i + 1]]]

\* removeHandler: drop the element at the 0-based idx, if idx is in range.
removeHandler(h, topic, idx) ==
  IF topic \notin DOMAIN h THEN h
  ELSE LET seq == h[topic]
           l == Len(seq)
       IN IF ~(0 <= idx /\ idx < l) THEN h
          ELSE [h EXCEPT ![topic] =
                  [i \in 1..(l - 1) |-> IF i <= idx THEN seq[i] ELSE seq[i + 1]]]

\* An Unsubscribe that tests the key only.
UnsubscribeFinds_KeyOnly(h, topic) == topic \in DOMAIN h

\* The test of Unsubscribe: _, ok := bus.handlers[topic]; ok && len(...) > 0
UnsubscribeFinds(h, topic) ==
  IF topic \in DOMAIN h THEN Len(h[topic]) > 0 ELSE FALSE

Unsubscribe(c) ==
  /\ Running(c) /\ pc[c] = "locked" /\ op[c].name = "Unsubscribe"
  /\ WriteHeld(c)
  /\ wOwner' = None
  /\ LET topic == op[c].topic IN
       IF UnsubscribeFinds(handlers, topic)
         THEN IF findHandlerIdxFaults(handlers, topic, op[c].fn)
                THEN Panic(c) /\ UNCHANGED handlers
                ELSE /\ handlers' = removeHandler(handlers, topic,
                                      findHandlerIdx(handlers, topic, op[c].fn))
                     /\ Return(c, Result(None, None, 0))
                     /\ UNCHANGED crashed
         ELSE /\ Return(c, Result(None, "UnknownTopic", 0))
              /\ UNCHANGED <<handlers, crashed>>
  /\ UNCHANGED <<readers, tasks, nops>>

\* ---------------------------------------------------------------- tasks
\* A goroutine started by the bus.  kind "pub": go bus.doPublish(...);
\* kind "reply": the go func of PublishWithReply with its channel done.
\*   st:   ready -> invoked -> done | dropped,  or ready -> faulted
\*   chan: "open" (empty), "full" (one result buffered), "closed"
Task(kind, call, handler, args) ==
  [kind |-> kind, call |-> call, handler |-> handler, args |-> args,
   st |-> "ready", calls |-> 0,
   chan |-> IF kind = "reply" THEN "open" ELSE None, res |-> <<>>]

\* -------------------------------------------------------------- Publish
\* A Publish that gives the read lock back as soon as it has its copy.
Publish_CopyOnly(c, topic, args) ==
  /\ CanRLock
  /\ LET hs == Lookup(handlers, topic) IN
       IF topic \in DOMAIN handlers /\ 0 < Len(hs)
         THEN /\ Begin(c, [Call("Publish", topic, None, args)
                              EXCEPT !.copy = hs, !.i = 1])
              /\ pc' = [pc EXCEPT ![c] = "range"]
         ELSE BeginReturn(c, "Publish", topic, NoRet)
  /\ UNCHANGED <<handlers, wOwner, readers, tasks, crashed>>

\* The call, RLock, the test of the topic, and the copy of its handlers.
Publish(c, topic, args) ==
  /\ CanRLock
  /\ LET hs == Lookup(handlers, topic) IN
       IF topic \in DOMAIN handlers /\ 0 < Len(hs)
         THEN /\ Begin(c, [Call("Publish", topic, None, args)
                              EXCEPT !.copy = hs, !.i = 1])
              /\ readers' = readers + 1
              /\ pc' = [pc EXCEPT ![c] = "range"]
         ELSE /\ BeginReturn(c, "Publish", topic, NoRet)
              /\ UNCHANGED readers
  /\ UNCHANGED <<handlers, wOwner, tasks, crashed>>

\* One iteration of the loop: go bus.doPublish(handler, topic, args...)
PublishGo(c) ==
  /\ Running(c) /\ pc[c] = "range" /\ op[c].i <= Len(op[c].copy)
  /\ tasks' = Append(tasks, Task("pub", op[c].id, op[c].copy[op[c].i], op[c].args))
  /\ op' = [op EXCEPT ![c].i = @ + 1]
  /\ UNCHANGED <<handlers, wOwner, readers, pc, ret, crashed, nops>>

\* A Publish that returns without the deferred RUnlock.
PublishReturn_NoRUnlock(c) ==
  /\ Running(c) /\ pc[c] = "range" /\ op[c].i > Len(op[c].copy)
  /\ Return(c, NoRet)
  /\ UNCHANGED <<handlers, wOwner, readers, tasks, crashed, nops>>

\* The loop is over: Publish returns and its deferred RUnlock runs.
PublishReturn(c) ==
  /\ Running(c) /\ pc[c] = "range" /\ op[c].i > Len(op[c].copy)
  /\ readers' = readers - 1
  /\ Return(c, NoRet)
  /\ UNCHANGED <<handlers, wOwner, tasks, crashed, nops>>

\* ----------------------------------------------------- PublishWithReply
\* The tests with the expected count in the error instead of the actual one.
PublishWithReplyCheck_Expected(h, topic) ==
  CASE topic \notin DOMAIN h -> Result(None, "UnknownTopic", 0)
    [] Len(h[topic]) # 1 -> Result(None, "HandlerCountMismatch", 1)
    [] OTHER -> NoRet

\* The tests with an emptied topic taken for an unknown one, as Unsubscribe does.
PublishWithReplyCheck_EmptyUnknown(h, topic) ==
  CASE topic \notin DOMAIN h \/ Len(h[topic]) = 0 ->
         Result(None, "UnknownTopic", 0)
    [] Len(h[topic]) # 1 -> Result(None, "HandlerCountMismatch", Len(h[topic]))
    [] OTHER -> NoRet

\* The tests without the test of the key.
PublishWithReplyCheck_NoKeyTest(h, topic) ==
  IF Len(Lookup(h, topic)) # 1
    THEN Result(None, "HandlerCountMismatch", Len(Lookup(h, topic)))
    ELSE NoRet

\* The tests before the invocation: the error, or None to go on.
PublishWithReplyCheck(h, topic) ==
  CASE topic \notin DOMAIN h -> Result(None, "UnknownTopic", 0)
    [] Len(h[topic]) # 1 -> Result(None, "HandlerCountMismatch", Len(h[topic]))
    [] OTHER -> NoRet

\* A PublishWithReply that gives the read lock back before it waits.
PublishWithReply_NoLock(c, topic, args) ==
  /\ CanRLock
  /\ LET r == PublishWithReplyCheck(handlers, topic) IN
       IF r.err # None
         THEN /\ BeginReturn(c, "PublishWithReply", topic, r)
              /\ UNCHANGED <<readers, tasks>>
         ELSE /\ Begin(c, [Call("PublishWithReply", topic, None, args)
                              EXCEPT !.copy = handlers[topic],
                                     !.task = Len(tasks) + 1])
              /\ UNCHANGED readers
              /\ tasks' = Append(tasks, Task("reply", CallId(c),
                                             handlers[topic][1], args))
              /\ pc' = [pc EXCEPT ![c] = "select"]
  /\ UNCHANGED <<handlers, wOwner, crashed>>

\* The call, RLock, the tests, the copy, make(chan, 1) and the go func.
PublishWithReply(c, topic, args) ==
  /\ CanRLock
  /\ LET r == PublishWithReplyCheck(handlers, topic) IN
       IF r.err # None
         THEN /\ BeginReturn(c, "PublishWithReply", topic, r)
              /\ UNCHANGED <<readers, tasks>>
         ELSE /\ Begin(c, [Call("PublishWithReply", topic, None, args)
                              EXCEPT !.copy = handlers[topic],
                                     !.task = Len(tasks) + 1])
              /\ readers' = readers + 1
              /\ tasks' = Append(tasks, Task("reply", CallId(c),
                                             handlers[topic][1], args))
              /\ pc' = [pc EXCEPT ![c] = "select"]
  /\ UNCHANGED <<handlers, wOwner, crashed>>

\* The timer of time.After(timeout) fires.
TimerFire(c) ==
  /\ Running(c) /\ pc[c] = "select" /\ ~op[c].timer
  /\ op' = [op EXCEPT ![c].timer = TRUE]
  /\ UNCHANGED <<handlers, wOwner, readers, pc, ret, tasks, crashed, nops>>

\* A first case that returns the first result of any non-empty list.
ReplyOf_First(resultList) ==
  IF Len(resultList) >= 1 THEN Result(resultList[1], None, 0)
  ELSE Result(None, None, 0)

\* What the first case of the select returns for a received result list.
ReplyOf(resultList) ==
  IF Len(resultList) = 1 THEN Result(resultList[1], None, 0)
  ELSE Result(None, None, 0)

\* A second case that returns no error.
TimeoutOf_Silent == Result(None, None, 0)

\* What the second case of the select returns.
TimeoutOf == Result(None, "Timeout", 0)

\* The select takes a case that can proceed; then the deferred close(done)
\* and RUnlock run.
PublishWithReplySelect(c) ==
  /\ Running(c) /\ pc[c] = "select"
  /\ \/ /\ tasks[op[c].task].chan = "full"
        /\ Return(c, ReplyOf(tasks[op[c].task].res))
     \/ /\ op[c].timer
        /\ Return(c, TimeoutOf)
  /\ tasks' = [tasks EXCEPT ![op[c].task].chan = "closed"]
  /\ readers' = readers - 1
  /\ UNCHANGED <<handlers, wOwner, crashed, nops>>

\* ------------------------------------------------------ the goroutines
\* Goroutines without a recover: every fault ends the program.
TaskStart_NoRecover(k) ==
  /\ ~crashed /\ k \in DOMAIN tasks /\ tasks[k].st = "ready"
  /\ IF InvokeFaults(tasks[k].handler, tasks[k].args)
       THEN /\ tasks' = [tasks EXCEPT ![k].st = "faulted"]
            /\ crashed' = TRUE
       ELSE /\ tasks' = [tasks EXCEPT ![k].st = "invoked", ![k].calls = @ + 1]
            /\ UNCHANGED crashed
  /\ UNCHANGED <<handlers, wOwner, readers, pc, op, ret, nops>>

\* setUpPublish and callBack.Call up to the entry of the function.  A fault
\* in go doPublish is not recovered and ends the program; the go func of
\* PublishWithReply recovers it and prints it.
TaskStart(k) ==
  /\ ~crashed /\ k \in DOMAIN tasks /\ tasks[k].st = "ready"
  /\ IF InvokeFaults(tasks[k].handler, tasks[k].args)
       THEN /\ tasks' = [tasks EXCEPT ![k].st = "faulted"]
            /\ crashed' = (tasks[k].kind = "pub")
       ELSE /\ tasks' = [tasks EXCEPT ![k].st = "invoked", ![k].calls = @ + 1]
            /\ UNCHANGED crashed
  /\ UNCHANGED <<handlers, wOwner, readers, pc, op, ret, nops>>

\* A go func without recover: the send on the closed channel ends the program.
TaskFinish_NoRecover(k) ==
  /\ ~crashed /\ k \in DOMAIN tasks /\ tasks[k].st = "invoked"
  /\ tasks[k].handler \in BusCallers => pc[ThreadOf(k)] = "returned"
  /\ LET t == tasks[k]
         resultList == CallResult(t.handler, setUpPublish(t.handler, t.args))
     IN /\ tasks' = [tasks EXCEPT ![k] =
             CASE t.kind = "pub" -> [t EXCEPT !.st = "done"]
               [] t.chan = "closed" -> [t EXCEPT !.st = "dropped"]
               [] OTHER -> [t EXCEPT !.st = "done", !.chan = "full",
                                     !.res = resultList]]
        /\ crashed' = (t.kind = "reply" /\ t.chan = "closed")
  /\ UNCHANGED <<handlers, wOwner, readers, pc, op, ret, nops>>

\* The function returns (one that calls the bus, after its call has
\* returned).  doPublish drops the results; the go func sends them
\* on done, which faults (recovered, printed) when done is already closed.
TaskFinish(k) ==
  /\ ~crashed /\ k \in DOMAIN tasks /\ tasks[k].st = "invoked"
  /\ tasks[k].handler \in BusCallers => pc[ThreadOf(k)] = "returned"
  /\ LET t == tasks[k]
         resultList == CallResult(t.handler, setUpPublish(t.handler, t.args))
     IN tasks' = [tasks EXCEPT ![k] =
          CASE t.kind = "pub" -> [t EXCEPT !.st = "done"]
            [] t.chan = "closed" -> [t EXCEPT !.st = "dropped"]
            [] OTHER -> [t EXCEPT !.st = "done", !.chan = "full",
                                  !.res = resultList]]
  /\ UNCHANGED <<handlers, wOwner, readers, pc, op, ret, crashed, nops>>

\* The function of task k, entered, makes its call to the bus.
TaskCall(k) ==
  /\ k \in DOMAIN tasks /\ tasks[k].handler \in BusCallers
  /\ LET t == ThreadOf(k)
         call == BusCall(tasks[k].handler)
     IN CASE call.name = "Subscribe" -> SubscribeCall(t, call.topic, call.fn)
          [] call.name = "Unsubscribe" ->
               UnsubscribeCall(t, call.topic, call.fn)
          [] call.name = "HasCallback" -> HasCallbackCall(t, call.topic)
          [] call.name = "Publish" ->
               \E args \in ArgLists : Publish(t, call.topic, args)
          [] OTHER ->
               \E args \in ArgLists : PublishWithReply(t, call.topic, args)

\* ------------------------------------------------------------------ Next
Next ==
  \/ \E c \in Clients, topic \in Topics, fn \in FnInputs :
       SubscribeCall(c, topic, fn)
  \/ \E c \in Clients, topic \in Topics, fn \in UnsubscribeInputs :
       UnsubscribeCall(c, topic, fn)
  \/ \E c \in Clients, topic \in Topics : HasCallbackCall(c, topic)
  \/ \E c \in Clients : Subscribe(c)
  \/ \E c \in Clients : Unsubscribe(c)
  \/ \E c \in Clients : HasCallback(c)
  \/ \E c \in Clients, topic \in Topics, args \in ArgLists :
       Publish(c, topic, args)
  \/ \E c \in Clients : PublishGo(c)
  \/ \E c \in Clients : PublishReturn(c)
  \/ \E c \in Clients, topic \in Topics, args \in ArgLists :
       PublishWithReply(c, topic, args)
  \/ \E c \in Clients : TimerFire(c)
  \/ \E c \in Clients : PublishWithReplySelect(c)
  \/ \E k \in DOMAIN tasks : TaskStart(k)
  \/ \E k \in DOMAIN tasks : TaskFinish(k)

Spec == Init /\ [][Next]_vars

\* ------------------------------------------- functions that call the bus
\* New(), with the goroutines of the tasks to come.
ReentrantInit ==
  /\ handlers = [t \in {} |-> <<>>]
  /\ wOwner = None
  /\ readers = 0
  /\ pc = [c \in Threads |-> "idle"]
  /\ op = [c \in Threads |-> NoOp]
  /\ ret = NoReturn
  /\ tasks = <<>>
  /\ crashed = FALSE
  /\ nops = 0

\* The clients subscribe functions that call the bus to topic a and hello to
\* topic b, ask for replies on a, and call HasCallback; the functions make
\* their calls from the goroutines of their tasks.
ReentrantNext ==
  \/ \E c \in Clients, fn \in BusCallers : SubscribeCall(c, "a", fn)
  \/ \E c \in Clients : SubscribeCall(c, "b", "hello")
  \/ \E c \in Clients : HasCallbackCall(c, "a")
  \/ \E c \in Clients, args \in ArgLists : PublishWithReply(c, "a", args)
  \/ \E k \in DOMAIN tasks : TaskCall(k)
  \/ \E c \in Threads : Subscribe(c)
  \/ \E c \in Threads : Unsubscribe(c)
  \/ \E c \in Threads : HasCallback(c)
  \/ \E c \in Threads : PublishGo(c)
  \/ \E c \in Threads : PublishReturn(c)
  \/ \E c \in Threads : TimerFire(c)
  \/ \E c \in Threads : PublishWithReplySelect(c)
  \/ \E k \in DOMAIN tasks : TaskStart(k)
  \/ \E k \in DOMAIN tasks : TaskFinish(k)

ReentrantSpec == ReentrantInit /\ [][ReentrantNext]_vars

\* The scheduling of the callers: a timer that was started fires, and a
\* caller whose select has a case that can proceed takes one.  Nothing makes
\* a function that was invoked ever return.
ReentrantFairSpec ==
  /\ ReentrantSpec
  /\ \A c \in Threads : WF_vars(TimerFire(c))
  /\ \A c \in Threads : WF_vars(PublishWithReplySelect(c))

\* ================================================================ claims
SelectReturns(c) == pc[c] = "select" /\ pc'[c] = "idle"
RepliedTo(name, topic, r) == ret' = Returned(name, topic, r)

\* The step in which a client calls PublishWithReply on topic T: the call
\* either returns in that step or reaches its select.
CallsPublishWithReply(T) ==
  /\ nops' = nops + 1
  /\ \/ ret'.name = "PublishWithReply" /\ ret'.topic = T
     \/ \E c \in Clients :
          pc[c] = "idle" /\ pc'[c] = "select" /\ op'[c].topic = T

C3_Timeout ==
  /\ [][\A c \in Clients :
          (SelectReturns(c) /\ tasks[op[c].task].chan # "full") =>
            /\ RepliedTo("PublishWithReply", op[c].topic,
                         Result(None, "Timeout", 0))
            /\ tasks'[op[c].task].st = tasks[op[c].task].st
       ]_vars
  /\ [](\A k \in DOMAIN tasks :
          (tasks[k].kind = "reply" /\ tasks[k].chan = "closed" /\ ~crashed) =>
            /\ tasks[k].st = "ready" => ENABLED TaskStart(k)
            /\ tasks[k].st = "invoked" => ENABLED TaskFinish(k))

\* The caller got Timeout and its invocation has completed since.
C3_Witness ==
  /\ ret.name = "PublishWithReply"
  /\ ret.r.err = "Timeout"
  /\ \E k \in DOMAIN tasks :
       tasks[k].kind = "reply" /\ tasks[k].st = "dropped"

\* C4: PublishWithReply on a topic whose entry holds n # 1 handlers returns
\* HandlerCountMismatch with the count n in the step of the call (no select,
\* no timer: every client is where it was), and starts no invocation.
C4_CountMismatch ==
  [][\A T \in Topics :
       (/\ CallsPublishWithReply(T)
        /\ T \in DOMAIN handlers
        /\ Len(handlers[T]) # 1) =>
         /\ RepliedTo("PublishWithReply", T,
              Result(None, "HandlerCountMismatch", Len(handlers[T])))
         /\ pc' = pc
         /\ tasks' = tasks
    ]_vars

\* PublishWithReply found two handlers, and none of them was invoked.
C4_Witness ==
  /\ ret.name = "PublishWithReply"
  /\ ret.r = Result(None, "HandlerCountMismatch", 2)
  /\ Len(handlers[ret.topic]) = 2
  /\ tasks = <<>>

\* C5 as stated: PublishWithReply on any topic that has no handler, a topic
\* never subscribed included, returns HandlerCountMismatch at once.
C5_Original ==
  [][\A T \in Topics :
       (CallsPublishWithReply(T) /\ Lookup(handlers, T) = <<>>) =>
         /\ ret'.r.err = "HandlerCountMismatch"
         /\ pc' = pc
    ]_vars

\* C5 as amended: PublishWithReply on a topic that has no handler returns at
\* once, without a select: HandlerCountMismatch with the count 0 when the
\* topic has an (emptied) entry, UnknownTopic when it was never subscribed.
C5_NoHandler ==
  [][\A T \in Topics :
       (CallsPublishWithReply(T) /\ Lookup(handlers, T) = <<>>) =>
         /\ ret'.name = "PublishWithReply"
         /\ ret'.r.err = IF T \in DOMAIN handlers THEN "HandlerCountMismatch"
                         ELSE "UnknownTopic"
         /\ ret'.r.n = 0
         /\ ret'.r.val = None
         /\ pc' = pc
         /\ \A d \in Clients : op'[d].timer = op[d].timer
    ]_vars

\* PublishWithReply on an emptied topic returned the count 0.
C5_Witness ==
  /\ ret.name = "PublishWithReply"
  /\ ret.r = Result(None, "HandlerCountMismatch", 0)
  /\ ret.topic \in DOMAIN handlers
  /\ handlers[ret.topic] = <<>>

\* C6: PublishWithReply on a topic without an entry returns UnknownTopic in
\* the step of the call (no select, no timer), and starts no invocation.
C6_UnknownTopic ==
  [][\A T \in Topics :
       (CallsPublishWithReply(T) /\ T \notin DOMAIN handlers) =>
         /\ RepliedTo("PublishWithReply", T, Result(None, "UnknownTopic", 0))
         /\ pc' = pc
         /\ tasks' = tasks
    ]_vars

\* PublishWithReply on a missing topic failed while another topic has a
\* handler, which was not invoked.
C6_Witness ==
  /\ ret.name = "PublishWithReply"
  /\ ret.r.err = "UnknownTopic"
  /\ ret.topic \notin DOMAIN handlers
  /\ \E T \in DOMAIN handlers : handlers[T] # <<>>
  /\ tasks = <<>>

\* C7: HasCallback(T) returns true exactly when T is a key of the registry
\* with a non-empty sequence (compared with the registry at the return, which
\* happens under the write lock); the same holds of its result computed on
\* the registry of every reachable state.
C7_HasCallback ==
  /\ [][\A c \in Clients :
          (pc[c] = "locked" /\ op[c].name = "HasCallback" /\ pc'[c] = "idle") =>
            /\ ret'.name = "HasCallback"
            /\ ret'.r.has <=> (/\ op[c].topic \in DOMAIN handlers
                               /\ handlers[op[c].topic] # <<>>)
       ]_vars
  /\ [](\A T \in Topics :
          HasCallbackResult(handlers, T) <=>
            (T \in DOMAIN handlers /\ handlers[T] # <<>>))

\* HasCallback returned false for a topic whose entry has been emptied.
C7_Witness ==
  /\ ret.name = "HasCallback"
  /\ ~ret.r.has
  /\ ret.topic \in DOMAIN handlers
  /\ handlers[ret.topic] = <<>>

\* C8 as stated: Subscribe(T, x) with x not a function returns NotInvocable,
\* does not fault, and leaves the registry as it is.
C8_NotInvocable ==
  [][\A c \in Clients :
       (/\ pc[c] = "locked" /\ op[c].name = "Subscribe" /\ pc'[c] = "idle"
        /\ op[c].fn \notin FuncValues) =>
         /\ ret'.r.err = "NotInvocable"
         /\ handlers' = handlers
    ]_vars

\* C9: Subscribe(T, h) with a function h succeeds, and a successful Subscribe
\* makes T's sequence the old one (empty when T had no entry) with h appended
\* at the end, whether or not h is already in it, makes T a key, and changes
\* no other topic.
C9_Append ==
  [][\A c \in Clients :
       (pc[c] = "locked" /\ op[c].name = "Subscribe" /\ pc'[c] = "idle") =>
         /\ op[c].fn \in FuncValues => ret'.r.err = None
         /\ ret'.r.err = None =>
              /\ DOMAIN handlers' = DOMAIN handlers \cup {op[c].topic}
              /\ handlers'[op[c].topic] =
                   Lookup(handlers, op[c].topic) \o <<op[c].fn>>
              /\ \A U \in DOMAIN handlers \ {op[c].topic} :
                   handlers'[U] = handlers[U]
    ]_vars

\* A Subscribe has just registered a function that was registered already.
C9_Witness ==
  /\ ret.name = "Subscribe"
  /\ ret.r.err = None
  /\ \E f \in FuncValues : handlers[ret.topic] = <<f, f>>

\* The indexes of the handlers of seq that h matches: same type and same
\* entry point.
MatchesIn(seq, h) == {i \in 1..Len(seq) : Matches(seq[i], h)}
WithoutIndex(seq, i) == SubSeq(seq, 1, i - 1) \o SubSeq(seq, i + 1, Len(seq))

C11_UnknownTopic ==
  [][\A c \in Clients :
       (/\ pc[c] = "locked" /\ op[c].name = "Unsubscribe" /\ pc'[c] = "idle"
        /\ Lookup(handlers, op[c].topic) = <<>>) =>
         /\ RepliedTo("Unsubscribe", op[c].topic,
                      Result(None, "UnknownTopic", 0))
         /\ handlers' = handlers
         /\ crashed' = crashed
    ]_vars

\* Unsubscribe failed on a topic whose entry had been emptied before, and the
\* empty entry is still there.
C11_Witness ==
  /\ ret.name = "Unsubscribe"
  /\ ret.r.err = "UnknownTopic"
  /\ ret.topic \in DOMAIN handlers
  /\ handlers[ret.topic] = <<>>

\* C12: no step removes a key of the registry, also not the Unsubscribe that
\* empties the key's sequence, and a key appears only by a Subscribe that
\* succeeds; a Subscribe of a function on a key with an empty sequence
\* succeeds, and HasCallback is true of the topic afterwards.
C12_KeysGrow ==
  /\ [][/\ DOMAIN handlers \subseteq DOMAIN handlers'
        /\ DOMAIN handlers' # DOMAIN handlers =>
             (ret'.name = "Subscribe" /\ ret'.r.err = None)
       ]_vars
  /\ [][\A c \in Clients :
          (/\ pc[c] = "locked" /\ op[c].name = "Subscribe" /\ pc'[c] = "idle"
           /\ op[c].fn \in FuncValues
           /\ op[c].topic \in DOMAIN handlers
           /\ handlers[op[c].topic] = <<>>) =>
            /\ ret'.r.err = None
            /\ HasCallbackResult(handlers', op[c].topic)
            /\ handlers'[op[c].topic] = <<op[c].fn>>
       ]_vars

\* A Subscribe of a function holds the lock on a topic whose key is still in
\* the registry after an Unsubscribe has emptied its sequence.
C12_Witness ==
  \E c \in Clients :
    /\ pc[c] = "locked" /\ op[c].name = "Subscribe" /\ WriteHeld(c)
    /\ op[c].fn \in FuncValues
    /\ op[c].topic \in DOMAIN handlers
    /\ handlers[op[c].topic] = <<>>

\* The handlers of the invocations that the Publish with the given call id has
\* scheduled so far, in the order of scheduling.
ScheduledBy(id) ==
  LET mine == SelectSeq(tasks, LAMBDA t : t.kind = "pub" /\ t.call = id)
  IN [j \in 1..Len(mine) |-> mine[j].handler]

\* A step of the bus that is not the start of a call.
Proceeds ==
  \/ \E c \in Clients : Subscribe(c) \/ Unsubscribe(c) \/ HasCallback(c)
  \/ \E c \in Clients : PublishGo(c) \/ PublishReturn(c)
  \/ \E c \in Clients : TimerFire(c) \/ PublishWithReplySelect(c)
  \/ \E k \in DOMAIN tasks : TaskStart(k) \/ TaskFinish(k)

\* C13 as stated, its last part: no interleaving of Publish with Subscribe
\* and Unsubscribe ends the program.  (A call's own panic on a nil callback
\* is left aside: a state where a Publish has scheduled an invocation and the
\* last return is no panic.)
C13_NoCrash ==
  (/\ \E k \in DOMAIN tasks : tasks[k].kind = "pub"
   /\ ret.r.err # "panic") => ~crashed

\* What holds of C13: a Publish schedules exactly the handlers of its
\* snapshot, in order, and a scheduled invocation keeps its handler and arguments, whatever
\* Subscribe and Unsubscribe do meanwhile; a Subscribe or Unsubscribe of a
\* function changes no snapshot and no task and ends no program, and never
\* runs while a reader holds the lock; and as long as the program runs, a
\* state with a call in flight has a step that can be taken (no deadlock).
C13_Snapshot ==
  /\ [](\A c \in Clients :
          pc[c] = "range" =>
            ScheduledBy(op[c].id) = SubSeq(op[c].copy, 1, op[c].i - 1))
  /\ [][/\ \A k \in DOMAIN tasks :
             /\ k \in DOMAIN tasks'
             /\ tasks'[k].kind = tasks[k].kind
             /\ tasks'[k].call = tasks[k].call
             /\ tasks'[k].handler = tasks[k].handler
             /\ tasks'[k].args = tasks[k].args
        /\ \A c \in Clients :
             (pc[c] = "range" /\ pc'[c] = "range") => op'[c].copy = op[c].copy
        /\ \A c \in Clients :
             (pc[c] = "range" /\ pc'[c] = "idle") =>
               ScheduledBy(op[c].id) = op[c].copy
        /\ \A c \in Clients :
             (/\ pc[c] = "locked" /\ pc'[c] = "idle"
              /\ op[c].name \in {"Subscribe", "Unsubscribe"}
              /\ op[c].fn \in FuncValues) =>
               /\ readers = 0
               /\ tasks' = tasks
               /\ crashed' = crashed
               /\ \A d \in Clients : op'[d].copy = op[d].copy
       ]_vars
  /\ []((~crashed /\ \E c \in Clients : pc[c] # "idle") => ENABLED Proceeds)

\* An Unsubscribe has emptied the topic while an invocation that a Publish
\* scheduled from its snapshot of the topic has not started yet.
C13_Witness ==
  /\ ret.name = "Unsubscribe"
  /\ ret.r.err = None
  /\ DOMAIN handlers = {ret.topic}
  /\ handlers[ret.topic] = <<>>
  /\ \E k \in DOMAIN tasks :
       /\ tasks[k].kind = "pub" /\ tasks[k].st = "ready"
       /\ tasks[k].handler \in FuncValues

\* C14: when the invocation of a PublishWithReply faults, the step ends the
\* task as faulted and nothing else: the program goes on, no call returns by
\* it, nothing is put on the channel; a faulted reply task never holds a
\* result; and a PublishWithReply whose invocation faults returns only after
\* its timer has fired, with (nil, Timeout).
C14_ReplyFault ==
  /\ [][\A k \in DOMAIN tasks :
          (/\ tasks[k].kind = "reply"
           /\ tasks[k].st = "ready" /\ tasks'[k].st # "ready"
           /\ InvokeFaults(tasks[k].handler, tasks[k].args)) =>
            /\ tasks' = [tasks EXCEPT ![k].st = "faulted"]
            /\ crashed' = crashed
            /\ pc' = pc /\ ret' = ret
       ]_vars
  /\ [](\A k \in DOMAIN tasks :
          (tasks[k].kind = "reply" /\ tasks[k].st = "faulted") =>
            (tasks[k].chan # "full" /\ tasks[k].res = <<>>))
  /\ [][\A c \in Clients :
          (/\ SelectReturns(c)
           /\ InvokeFaults(tasks[op[c].task].handler, op[c].args)) =>
            /\ op[c].timer
            /\ RepliedTo("PublishWithReply", op[c].topic,
                         Result(None, "Timeout", 0))
       ]_vars

\* The only invocation of the run, that of a PublishWithReply, has faulted,
\* the program runs on, and the call has returned Timeout.
C14_Witness ==
  /\ ret.name = "PublishWithReply"
  /\ ret.r.err = "Timeout"
  /\ ~crashed
  /\ Len(tasks) = 1
  /\ tasks[1].kind = "reply" /\ tasks[1].st = "faulted"

\* C17: while a PublishWithReply is between its count check and its return,
\* no step changes the registry, that of the call and of its return included;
\* a Subscribe or Unsubscribe acts only when no such call is outstanding; and
\* at the return the sequence of the call's topic is the one it checked.
C17_NoMutation ==
  /\ [][(\E c \in Clients : pc[c] = "select" \/ pc'[c] = "select") =>
          handlers' = handlers
       ]_vars
  /\ [][\A d \in Clients :
          (/\ pc[d] = "locked" /\ pc'[d] = "idle"
           /\ op[d].name \in {"Subscribe", "Unsubscribe"}) =>
            \A c \in Clients : pc[c] # "select"
       ]_vars
  /\ [][\A c \in Clients :
          SelectReturns(c) => handlers'[op[c].topic] = op[c].copy
       ]_vars

\* A Subscribe or Unsubscribe of a function has announced itself and waits
\* for the lock while a PublishWithReply is outstanding.
C17_Witness ==
  \E c, d \in Clients :
    /\ pc[c] = "select"
    /\ pc[d] = "locked" /\ wOwner = d /\ ~WriteHeld(d)
    /\ op[d].name \in {"Subscribe", "Unsubscribe"}
    /\ op[d].fn \in FuncValues

\* The calls that hold a read lock if Publish gives its lock back once the
\* snapshot is taken, and if it keeps it until it returns.
InSelect == {c \in Clients : pc[c] = "select"}
InRangeOrSelect == {c \in Clients : pc[c] \in {"range", "select"}}

C20_LateReply ==
  /\ [][\A k \in DOMAIN tasks :
          (/\ tasks[k].kind = "reply" /\ tasks[k].chan = "closed"
           /\ tasks[k].st = "invoked" /\ tasks'[k].st # "invoked") =>
            /\ tasks' = [tasks EXCEPT ![k].st = "dropped"]
            /\ crashed' = crashed
            /\ pc' = pc /\ ret' = ret
       ]_vars
  /\ [](\A k \in DOMAIN tasks :
          /\ (/\ tasks[k].kind = "reply" /\ tasks[k].chan = "closed"
              /\ tasks[k].st = "invoked" /\ ~crashed) => ENABLED TaskFinish(k)
          /\ tasks[k].st = "dropped" =>
               (tasks[k].res = <<>> /\ tasks[k].chan = "closed"))
  /\ [](\A c, d \in Clients :
          (pc[c] = "select" /\ pc[d] = "select" /\ c # d) =>
            op[c].task # op[d].task)
  /\ [][\A c \in Clients :
          (SelectReturns(c) /\ ret'.r.val # None) =>
            LET t == tasks[op[c].task] IN
              /\ t.kind = "reply" /\ t.call = op[c].id
              /\ t.st = "done" /\ t.chan = "full"
              /\ t.handler = op[c].copy[1] /\ t.args = op[c].args
              /\ ret'.r.val = t.res[1]
       ]_vars

\* The first PublishWithReply timed out and the late result of its
\* invocation was dropped; the second one has returned the result of its own
\* invocation.
C20_Witness ==
  /\ ~crashed
  /\ Len(tasks) = 2
  /\ tasks[1].kind = "reply" /\ tasks[1].st = "dropped"
  /\ tasks[2].kind = "reply" /\ tasks[2].st = "done"
  /\ ret.name = "PublishWithReply"
  /\ ret.r.err = None
  /\ ret.r.val = tasks[2].res[1]

\* The functions whose call to the bus takes the exclusive lock.
LockCallers == {"subscriber", "unsubscriber", "asker"}

\* The PublishWithReply that started task k has not returned yet.
Outstanding(k) ==
  \E c \in Threads : pc[c] = "select" /\ op[c].id = tasks[k].call

\* C19: the invocation through PublishWithReply of a function that calls
\* Subscribe, Unsubscribe or HasCallback on the bus never delivers a result;
\* while the outer call is outstanding the inner call cannot act; the inner
\* call acts only after the outer call has returned and closed its channel;
\* and the outer call returns (nil, Timeout), after its timer has fired.
C19_InnerBlocks ==
  /\ [](\A k \in DOMAIN tasks :
          (tasks[k].kind = "reply" /\ tasks[k].handler \in LockCallers) =>
            /\ tasks[k].chan # "full" /\ tasks[k].st # "done"
            /\ Outstanding(k) =>
                 /\ pc[ThreadOf(k)] \in {"idle", "locked"}
                 /\ ~ENABLED Subscribe(ThreadOf(k))
                 /\ ~ENABLED Unsubscribe(ThreadOf(k))
                 /\ ~ENABLED HasCallback(ThreadOf(k)))
  /\ [][\A k \in DOMAIN tasks :
          (/\ tasks[k].kind = "reply" /\ tasks[k].handler \in LockCallers
           /\ pc[ThreadOf(k)] = "locked" /\ pc'[ThreadOf(k)] = "returned") =>
            /\ ~Outstanding(k)
            /\ tasks[k].chan = "closed"
       ]_vars
  /\ [][\A c \in Threads :
          (/\ pc[c] = "select" /\ pc'[c] # "select"
           /\ tasks[op[c].task].handler \in LockCallers) =>
            /\ op[c].timer
            /\ RepliedTo("PublishWithReply", op[c].topic,
                         Result(None, "Timeout", 0))
       ]_vars

\* The subscriber was invoked through PublishWithReply; its Subscribe has
\* taken effect and returned, and its late result was dropped.
C19_Witness ==
  /\ ret.name = "Subscribe" /\ ret.r.err = None
  /\ Lookup(handlers, "a") = <<"subscriber", "note">>
  /\ \E k \in DOMAIN tasks :
       /\ tasks[k].kind = "reply" /\ tasks[k].handler = "subscriber"
       /\ tasks[k].st = "dropped" /\ pc[ThreadOf(k)] = "returned"

\* C16 as stated: a PublishWithReply whose timer has expired returns, whatever
\* its function does: its select can take the timer case.
C16_ReturnsByTimer ==
  \A c \in Threads :
    (pc[c] = "select" /\ op[c].timer) => ENABLED PublishWithReplySelect(c)

\* What holds of C16: as long as the program has not been ended, a
\* PublishWithReply in its select returns, under ReentrantFairSpec.
C16_ReturnsUnlessEnded ==
  \A c \in Threads :
    (pc[c] = "select") ~> (pc[c] # "select" \/ crashed)

\* A fault in a go doPublish has ended the program.
PublishFaulted ==
  \E k \in DOMAIN tasks : tasks[k].kind = "pub" /\ tasks[k].st = "faulted"

\* C1 as stated, for a run that has ended: every handler that a Publish
\* scheduled with arguments it accepts has been invoked exactly once.
C1_AllInvoked ==
  (crashed /\ PublishFaulted) =>
    \A k \in DOMAIN tasks :
      (tasks[k].kind = "pub" /\ ~InvokeFaults(tasks[k].handler, tasks[k].args))
        => tasks[k].calls = 1

\* C15 as stated: after a fire-and-forget invocation has faulted, the fault
\* stays in its task: every Publish that is in its loop still schedules the
\* rest of its snapshot and returns.
C15_FaultUnsurfaced ==
  PublishFaulted =>
    \A c \in Clients :
      pc[c] = "range" => ENABLED (PublishGo(c) \/ PublishReturn(c))

====
